---- MODULE Spec2Model ----
(***************************************************************************)
(* Model of braza-adapter/scripts/create_order.py: the create -> poll ->   *)
(* execute RFQ workflow of main(), with the server's responses as the      *)
(* nondeterministic environment.                                           *)
(*                                                                         *)
(* Python strings are sequences of one-character strings, so that          *)
(* startswith, slicing, rstrip and urlparse are computed character by      *)
(* character.  None is a one-element sequence holding a token that is not  *)
(* a character, which keeps it distinct from every string.                 *)
(***************************************************************************)
EXTENDS Integers, Sequences, FiniteSets, TLC

\* ------------------------------------------------------------------------
\* Bounds of the model
\* ------------------------------------------------------------------------
\* Largest attempt budget explored besides the default one.
MaxBudget == 3
\* Longest quote list a list response carries.
MaxQuotes == 2
\* How many times in a run two consecutive requests may read the same
\* millisecond off the clock.
MaxStalls == 1
\* Longest RFQ URL the path derivation is applied to on its own.
MaxUrlLen == 4

\* ------------------------------------------------------------------------
\* Strings
\* ------------------------------------------------------------------------
None == <<"None">>

EmptyStr == <<>>

HTTP_PREFIX == <<"h", "t", "t", "p", ":", "/", "/">>

HTTPS_PREFIX == <<"h", "t", "t", "p", "s", ":", "/", "/">>

BASE_URL == <<"h", "t", "t", "p", "s", ":", "/", "/", "a", "p", "i", "-", "s", "t", "a", "g", "i", "n", "g", ".", "c", "h", "e", "c", "k", "e", "r", ".", "f", "i", "n", "a", "n", "c", "e">>

RFQ_PATH == <<"/", "a", "p", "i", "/", "v", "1", "/", "r", "e", "q", "u", "e", "s", "t", "-", "f", "o", "r", "-", "q", "u", "o", "t", "e", "s">>

QUOTES_SUFFIX == <<"/", "q", "u", "o", "t", "e", "s">>

EXECUTE_SUFFIX == <<"/", "e", "x", "e", "c", "u", "t", "e">>

\* F applied to the value of x. It equals F(x); x is computed once, however
\* often F refers to it, which keeps evaluating ENABLED affordable.
ByValue(F(_), x) == CHOOSE r \in { F(v) : v \in {x} } : TRUE

\* s[from:] of Python, from counted from 1 here.
Drop(s, n) == SubSeq(s, n + 1, Len(s))

\* s[:n] of Python.
Take(s, n) == SubSeq(s, 1, n)

\* s.startswith(p)
StartsWith(s, p) == ByValue(LAMBDA v : Len(v) >= Len(p) /\ Take(v, Len(p)) = p, s)

\* s.find(c) for a one-character c: the first index (from 1), 0 when absent.
Find(s, c) ==
    ByValue(LAMBDA v :
                IF \E i \in 1..Len(v) : v[i] = c
                THEN CHOOSE i \in 1..Len(v) : v[i] = c /\ \A j \in 1..(i - 1) : v[j] # c
                ELSE 0,
            s)

\* Mutant: one trailing slash is removed.
RStripSlash_Once(s) == IF Len(s) > 0 /\ s[Len(s)] = "/" THEN Take(s, Len(s) - 1) ELSE s

\* s.rstrip("/"): every trailing slash is removed.
RECURSIVE RStripSlash(_)
RStripSlash(s) ==
    ByValue(LAMBDA v :
                IF Len(v) > 0 /\ v[Len(v)] = "/" THEN RStripSlash(Take(v, Len(v) - 1)) ELSE v,
            s)

\* str(n) for n >= 0: the decimal digits.
Digit(d) == <<"0", "1", "2", "3", "4", "5", "6", "7", "8", "9">>[d + 1]

RECURSIVE ToStr(_)
ToStr(n) == IF n < 10 THEN <<Digit(n)>> ELSE ToStr(n \div 10) \o <<Digit(n % 10)>>

\* Truthiness of an optional string: None and "" are falsy.
Truthy(v) == v # None /\ v # EmptyStr

\* ------------------------------------------------------------------------
\* urllib.parse.urlparse, restricted to the three components the script reads
\* (scheme, netloc, path).  urlparse also lower-cases the scheme; the strings
\* of this model hold no upper-case letter.
\* ------------------------------------------------------------------------
Letters == {"a", "c", "e", "f", "g", "h", "i", "k", "n", "o", "p", "q", "r", "s", "t", "u", "v", "x"}

SchemeChars == Letters \cup {"1", "+", "-", "."}

\* Index of the first of "/", "?", "#" in s, Len(s) + 1 when there is none.
NetlocEnd(s) ==
    ByValue(LAMBDA v :
                IF \E i \in 1..Len(v) : v[i] \in {"/", "?", "#"}
                THEN CHOOSE i \in 1..Len(v) :
                         /\ v[i] \in {"/", "?", "#"}
                         /\ \A j \in 1..(i - 1) : v[j] \notin {"/", "?", "#"}
                ELSE Len(v) + 1,
            s)

\* The part of s before the first occurrence of c (all of s when c is absent).
Before(s, c) == ByValue(LAMBDA v : IF Find(v, c) = 0 THEN v ELSE Take(v, Find(v, c) - 1), s)

urlparse(url) ==
    ByValue(LAMBDA u :
        LET i == Find(u, ":")
            hasScheme == /\ i > 1
                         /\ u[1] \in Letters
                         /\ \A j \in 1..(i - 1) : u[j] \in SchemeChars
            scheme == IF hasScheme THEN Take(u, i - 1) ELSE EmptyStr
            rest == IF hasScheme THEN Drop(u, i) ELSE u
            hasNetloc == StartsWith(rest, <<"/", "/">>)
            afterSlashes == Drop(rest, 2)
            netloc == IF hasNetloc
                      THEN Take(afterSlashes, NetlocEnd(afterSlashes) - 1)
                      ELSE EmptyStr
            tail == IF hasNetloc
                    THEN Drop(afterSlashes, NetlocEnd(afterSlashes) - 1)
                    ELSE rest
        IN  [scheme |-> scheme, netloc |-> netloc, path |-> Before(Before(tail, "#"), "?")],
        url)

\* f"{parsed.scheme}://{parsed.netloc}{path}"
BuildUrl(parsed, path) == parsed.scheme \o <<":", "/", "/">> \o parsed.netloc \o path

\* ------------------------------------------------------------------------
\* Values the server and the environment can supply
\* ------------------------------------------------------------------------
\* Values a Location header can carry: empty, secure, secure with
\* a trailing slash, insecure, a relative path, and one with a second
\* "http://" after the leading one.
UrlStrings ==
    { EmptyStr,
      <<"h", "t", "t", "p", "s", ":", "/", "/", "x", "/", "r">>,
      <<"h", "t", "t", "p", "s", ":", "/", "/", "x", "/", "r", "/">>,
      <<"h", "t", "t", "p", ":", "/", "/", "x", "/", "r">>,
      <<"/", "r">>,
      <<"h", "t", "t", "p", ":", "/", "/", "h", "t", "t", "p", ":", "/", "/", "x">> }

\* A JSON body field holds null or a string: empty, secure, insecure, or a
\* relative path.
BodyValues ==
    { None,
      EmptyStr,
      <<"h", "t", "t", "p", "s", ":", "/", "/", "x", "/", "r">>,
      <<"h", "t", "t", "p", ":", "/", "/", "x", "/", "r">>,
      <<"/", "r">> }

BodyKeys == {"rfqUrl", "rfq_url", "url"}

\* Python dicts with string keys are functions on a set of keys.
DictsOver(keys, values) == UNION { [K -> values] : K \in SUBSET keys }

EmptyDict == [k \in {} |-> None]

\* dict.get(key): None when the key is missing.
Get(d, key) == IF key \in DOMAIN d THEN d[key] ELSE None

\* Status codes of the responses the server sends: success and client/server
\* error, the classes on which Response.ok and "2xx" coincide.
StatusCodes == {200, 400, 503}

\* What CHECKER_API_KEY / CHECKER_SECRET_KEY can be in os.environ.
ApiKeyValues == {None, EmptyStr, <<"k">>}

SecretKeyValues == {None, EmptyStr, <<"s">>}

\* Default of poll_quotes' max_attempts parameter, the value main() uses.
DEFAULT_MAX_ATTEMPTS == 10

\* Attempt budgets poll_quotes is run with.
AttemptBudgets == (-1..MaxBudget) \cup {DEFAULT_MAX_ATTEMPTS}

\* Quote dicts: "quoteId" plus provider fields, or provider fields only.
Quotes == { [quoteId |-> "q1"], [quoteId |-> "q2"], [price |-> "p"] }

\* JSON arrays of at most MaxQuotes quotes.
QuoteLists == UNION { [1..n -> Quotes] : n \in 0..MaxQuotes }

ExecuteTexts == {"accepted", "insufficient funds"}

\* session.post / session.get raising instead of returning a response:
\* timeout, connection failure, or a URL requests cannot send.
TransportFailure == [kind |-> "transport"]

NoResponse == [kind |-> "none"]

CreateResponses ==
    {TransportFailure}
    \cup { [kind |-> "http", status |-> st, json_ok |-> TRUE, body |-> b, headers |-> h] :
             st \in StatusCodes,
             b \in DictsOver(BodyKeys, BodyValues),
             h \in DictsOver({"Location"}, UrlStrings) }
    \cup { [kind |-> "http", status |-> st, json_ok |-> FALSE, body |-> EmptyDict, headers |-> h] :
             st \in StatusCodes,
             h \in DictsOver({"Location"}, UrlStrings) }

ListResponses ==
    {TransportFailure}
    \cup { [kind |-> "http", status |-> st, json_ok |-> TRUE, body |-> q] :
             st \in StatusCodes, q \in QuoteLists }
    \cup { [kind |-> "http", status |-> st, json_ok |-> FALSE, body |-> <<>>] :
             st \in StatusCodes }

ExecuteResponses ==
    {TransportFailure}
    \cup { [kind |-> "http", status |-> st, text |-> t] :
             st \in StatusCodes, t \in ExecuteTexts }

\* requests only sends to an http(s) URL that names a host; for any other URL
\* the call raises before a response exists.
Sendable(url) ==
    /\ urlparse(url).scheme \in {<<"h", "t", "t", "p">>, <<"h", "t", "t", "p", "s">>}
    /\ urlparse(url).netloc # EmptyStr

\* Responses the environment can give to a request for url.
Answers(responses, url) == IF Sendable(url) THEN responses ELSE {TransportFailure}

\* Mutant: only client errors raise.
RaisesForStatus_ClientOnly(r) == 400 <= r.status /\ r.status < 500

\* Response.ok is False, and raise_for_status() raises, on 4xx and 5xx.
RaisesForStatus(r) == 400 <= r.status /\ r.status < 600

\* ------------------------------------------------------------------------
\* create_signature / make_auth_headers
\* ------------------------------------------------------------------------
\* int(time.time() * 1000) when the process starts.
StartMs == 8

\* The message f"{api_key}:{nonce}:{path}", and the base64 HMAC-SHA256 of it
\* under secret_key, kept as the pair it is computed from.
create_signature(nonce, path, key, secret) ==
    [hmac_key |-> secret, message |-> key \o <<":">> \o nonce \o <<":">> \o path]

\* The headers for a request on path when the clock reads t milliseconds.
make_auth_headers(path, key, secret, t) ==
    [x_api_key |-> key,
     x_nonce |-> ToStr(t),
     x_signature |-> create_signature(ToStr(t), path, key, secret),
     content_type |-> "application/json",
     accept |-> "application/json"]

\* ------------------------------------------------------------------------
\* create_rfq: the pure parts
\* ------------------------------------------------------------------------
\* a or b
Or(a, b) == IF Truthy(a) THEN a ELSE b

\* data = {} ; try: data = resp.json() except ValueError: pass
JsonOrEmpty(r) == IF r.json_ok THEN r.body ELSE EmptyDict

\* Mutant: the Location header is consulted first.
ExtractRfqUrl_LocationFirst(r) ==
    Or(Get(r.headers, "Location"),
       Or(Get(JsonOrEmpty(r), "rfqUrl"),
          Or(Get(JsonOrEmpty(r), "rfq_url"),
             Get(JsonOrEmpty(r), "url"))))

\* Mutant: the Location header is never consulted.
ExtractRfqUrl_BodyOnly(r) ==
    Or(Get(JsonOrEmpty(r), "rfqUrl"),
       Or(Get(JsonOrEmpty(r), "rfq_url"),
          Get(JsonOrEmpty(r), "url")))

\* The or-chain over the three body fields and the Location header.
ExtractRfqUrl(r) ==
    Or(Get(JsonOrEmpty(r), "rfqUrl"),
       Or(Get(JsonOrEmpty(r), "rfq_url"),
          Or(Get(JsonOrEmpty(r), "url"),
             Get(r.headers, "Location"))))

\* Mutant: the URL is returned as extracted.
NormalizeScheme_Identity(u) == u

\* if rfq_url.startswith("http://"): rfq_url = "https://" + rfq_url[len("http://"):]
NormalizeScheme(u) ==
    IF StartsWith(u, HTTP_PREFIX) THEN HTTPS_PREFIX \o Drop(u, Len(HTTP_PREFIX)) ELSE u

\* ------------------------------------------------------------------------
\* poll_quotes / execute_quote: path and URL derivation
\* ------------------------------------------------------------------------
quotes_path(u) == RStripSlash(urlparse(u).path) \o QUOTES_SUFFIX

quotes_url(u) == BuildUrl(urlparse(u), quotes_path(u))

execute_path(u) == RStripSlash(urlparse(u).path) \o EXECUTE_SUFFIX

\* Mutant: the execute URL is built on the host of BASE_URL.
execute_url_BaseHost(u) == BuildUrl(urlparse(BASE_URL), execute_path(u))

execute_url(u) == BuildUrl(urlparse(u), execute_path(u))

\* Mutant: range(1, max_attempts + 2).
LoopContinues_OneMore(a, m) == a <= m + 1

\* Mutant: range(1, max_attempts).
LoopContinues_OneFewer(a, m) == a < m

\* Mutant: the body of the loop runs once whatever the budget is.
LoopContinues_AtLeastOnce(a, m) == a = 1 \/ a <= m

\* for attempt in range(1, max_attempts + 1): a is still in the range.
LoopContinues(a, m) == a <= m

\* Mutant: the loop does not advance.
NextAttempt_Stuck(a) == a

\* The value the for statement gives attempt after a.
NextAttempt(a) == a + 1

\* Mutant: the last quote of the list is taken.
FirstQuote_Last(quotes) == quotes[Len(quotes)]

\* quote = quotes[0]
FirstQuote(quotes) == quotes[1]

\* ------------------------------------------------------------------------
\* State
\* ------------------------------------------------------------------------
VARIABLES
    pc,            \* where main() is: start, create, poll, execute, done, failed
    api_key,       \* os.environ.get("CHECKER_API_KEY")
    secret_key,    \* os.environ.get("CHECKER_SECRET_KEY")
    max_attempts,  \* poll_quotes' attempt budget, bound when it is called
    attempt,       \* the loop variable of poll_quotes
    rfq_url,       \* what create_rfq returned, None before
    quote,         \* <<q>> once poll_quotes returned q, <<>> before
    resp,          \* the response of the latest HTTP call
    reqs,          \* every session.post / session.get call, in order
    listResps,     \* every response to a quotes GET, in order
    sleeps,        \* number of time.sleep calls
    result,        \* what execute_quote returned, None before
    err,           \* the exception that ended the run, "" while there is none
    now,           \* int(time.time() * 1000) as last read by make_auth_headers
    out            \* the lines written to stdout and stderr, in order

vars == <<pc, api_key, secret_key, max_attempts, attempt, rfq_url, quote, resp,
          reqs, listResps, sleeps, result, err, now, out>>

Init ==
    /\ pc = "start"
    /\ api_key \in ApiKeyValues
    /\ secret_key \in SecretKeyValues
    /\ max_attempts = DEFAULT_MAX_ATTEMPTS
    /\ attempt = 1
    /\ rfq_url = None
    /\ quote = <<>>
    /\ resp = NoResponse
    /\ reqs = <<>>
    /\ listResps = <<>>
    /\ sleeps = 0
    /\ result = None
    /\ err = ""
    /\ now = StartMs
    /\ out = <<>>

\* Number of times two consecutive requests carried the same nonce.
Stalls ==
    Cardinality({ i \in 1..(Len(reqs) - 1) :
                    reqs[i].headers.x_nonce = reqs[i + 1].headers.x_nonce })

\* What time.time() can read at the next request: a later millisecond, or,
\* when the previous request was issued within the same millisecond, the
\* same one.
ClockReadings ==
    {now + 1} \cup (IF reqs # <<>> /\ Stalls < MaxStalls THEN {now} ELSE {})

\* Mutant: the exception is caught and reported, and the process ends normally.
Raise_Swallowed(e) == pc' = "done" /\ err' = e

\* An exception leaves main(): the process ends with a non-zero exit status.
Raise(e) == pc' = "failed" /\ err' = e

\* The process's exit status: 0 when main() returns, 1 when an exception or
\* SystemExit(message) leaves it, -1 while it runs.
ExitCode == IF pc = "done" THEN 0 ELSE IF pc = "failed" THEN 1 ELSE -1

\* ------------------------------------------------------------------------
\* What the process writes to stdout and stderr
\* ------------------------------------------------------------------------
\* An opaque text, as a printed string.
Tok(s) == <<s>>

\* One printed line: its fixed text and the strings formatted into it.
Line(label, shown) == [line |-> label, shows |-> shown]

\* The traceback the interpreter prints for the exception that leaves main():
\* the exception's name and the strings of its message.
Traceback(e, shown) == Line(e, shown)

\* The text of an x-signature header: a digest, which shows neither the key
\* nor the message it was computed from.
SignatureText(sig) == Tok("base64(hmac-sha256)")

\* The strings in the message of the HTTPError of raise_for_status():
\* "<status> Client|Server Error: <reason> for url: <url>".
HttpErrorMessage(r, url) == {ToStr(r.status), url}

\* The strings in str(data) for the body dict of the create response.
DictText(d) == { d[k] : k \in DOMAIN d }

\* The strings in str(quote).
QuoteText(q) == { Tok(q[k]) : k \in DOMAIN q }

\* Mutant: the dump leaves out the response body.
ExecuteErrorDump_NoBody(r, req) ==
    << Line("---- EXECUTE ERROR ----", {}),
       Line("Status code:", {ToStr(r.status)}),
       Line("URL:", {req.url}),
       Line("Method actually used:", {Tok(req.method)}),
       Line("Path used for signature:", {req.signed_path}),
       Line("Request headers:",
            {req.headers.x_api_key, req.headers.x_nonce,
             SignatureText(req.headers.x_signature),
             Tok(req.headers.content_type), Tok(req.headers.accept)}),
       Line("Request body:", {Tok(req.quote_id)}),
       Line("Response headers:", {}),
       Line("------------------------", {}) >>

\* Mutant: nothing is dumped.
ExecuteErrorDump_Nothing(r, req) == <<>>

\* The block printed under "if not resp.ok:".
ExecuteErrorDump(r, req) ==
    << Line("---- EXECUTE ERROR ----", {}),
       Line("Status code:", {ToStr(r.status)}),
       Line("URL:", {req.url}),
       Line("Method actually used:", {Tok(req.method)}),
       Line("Path used for signature:", {req.signed_path}),
       Line("Request headers:",
            {req.headers.x_api_key, req.headers.x_nonce,
             SignatureText(req.headers.x_signature),
             Tok(req.headers.content_type), Tok(req.headers.accept)}),
       Line("Request body:", {Tok(req.quote_id)}),
       Line("Response headers:", {}),
       Line("Response body:", {Tok(r.text)}),
       Line("------------------------", {}) >>

\* ------------------------------------------------------------------------
\* main(): the credential check
\* ------------------------------------------------------------------------
\* Mutant: only a run without any credential is refused.
CredentialsMissing_Both(key, secret) == ~Truthy(key) /\ ~Truthy(secret)

\* if not api_key or not secret_key
CredentialsMissing(key, secret) == ~Truthy(key) \/ ~Truthy(secret)

main_start ==
    /\ pc = "start"
    /\ IF CredentialsMissing(api_key, secret_key)
       THEN Raise("SystemExit") /\ out' = Append(out, Traceback("SystemExit", {}))
       ELSE pc' = "create" /\ err' = err /\ out' = out
    /\ UNCHANGED <<api_key, secret_key, max_attempts, attempt, rfq_url, quote,
                   resp, reqs, listResps, sleeps, result, now>>

\* ------------------------------------------------------------------------
\* create_rfq
\* ------------------------------------------------------------------------
CreateRequest(t) ==
    [method |-> "POST", op |-> "create", url |-> BASE_URL \o RFQ_PATH,
     signed_path |-> RFQ_PATH, quote_id |-> "",
     headers |-> make_auth_headers(RFQ_PATH, api_key, secret_key, t)]

create_rfq ==
    /\ pc = "create"
    /\ \E t \in ClockReadings : now' = t /\ reqs' = Append(reqs, CreateRequest(t))
    /\ \E r \in Answers(CreateResponses, BASE_URL \o RFQ_PATH) :
         /\ resp' = r
         /\ IF r.kind = "transport"
            THEN /\ Raise("ConnectionError")
                 /\ out' = Append(out, Traceback("ConnectionError", {BASE_URL \o RFQ_PATH}))
                 /\ UNCHANGED <<rfq_url, max_attempts>>
            ELSE IF RaisesForStatus(r)
            THEN /\ Raise("HTTPError")
                 /\ out' = Append(out, Traceback("HTTPError",
                                                 HttpErrorMessage(r, BASE_URL \o RFQ_PATH)))
                 /\ UNCHANGED <<rfq_url, max_attempts>>
            ELSE IF ~Truthy(ExtractRfqUrl(r))
            THEN /\ Raise("RuntimeError")
                 /\ out' = Append(out, Traceback("RuntimeError",
                                 {ToStr(r.status)} \cup DictText(JsonOrEmpty(r))
                                                   \cup DictText(r.headers)))
                 /\ UNCHANGED <<rfq_url, max_attempts>>
            ELSE /\ rfq_url' = NormalizeScheme(ExtractRfqUrl(r))
                 /\ out' = Append(out, Line("Created RFQ:",
                                            {NormalizeScheme(ExtractRfqUrl(r))}))
                 /\ max_attempts' = max_attempts
                 /\ pc' = "created"
                 /\ err' = err
    /\ UNCHANGED <<api_key, secret_key, attempt, quote, listResps, sleeps, result>>

\* ------------------------------------------------------------------------
\* poll_quotes, and main()'s quote["quoteId"] on its return
\* ------------------------------------------------------------------------
\* main() calls poll_quotes(session, rfq_url, api_key, secret_key): the attempt
\* budget is bound, and the response of the create request, a local of
\* create_rfq, is gone.
poll_quotes ==
    /\ pc = "created"
    /\ max_attempts' \in AttemptBudgets
    /\ attempt' = 1
    /\ resp' = NoResponse
    /\ pc' = "poll"
    /\ UNCHANGED <<api_key, secret_key, rfq_url, quote, reqs, listResps, sleeps,
                   result, err, now, out>>

\* Mutant: the quotes request is signed with the path of the RFQ itself.
ListRequest_SignsRfqPath(u, t) ==
    [method |-> "GET", op |-> "list", url |-> quotes_url(u),
     signed_path |-> urlparse(u).path, quote_id |-> "",
     headers |-> make_auth_headers(urlparse(u).path, api_key, secret_key, t)]

ListRequest(u, t) ==
    [method |-> "GET", op |-> "list", url |-> quotes_url(u),
     signed_path |-> quotes_path(u), quote_id |-> "",
     headers |-> make_auth_headers(quotes_path(u), api_key, secret_key, t)]

\* Mutant: no sleep after the last attempt of the budget.
SleepsAfterEmpty_NotAfterLast(a, m) == IF a < m THEN 1 ELSE 0

\* time.sleep(delay_seconds) after an empty result of attempt a: one call.
SleepsAfterEmpty(a, m) == 1

\* One iteration of the for loop.
poll_attempt ==
    /\ pc = "poll"
    /\ LoopContinues(attempt, max_attempts)
    /\ \E t \in ClockReadings : \E req \in {ListRequest(rfq_url, t)} :
         /\ now' = t
         /\ reqs' = Append(reqs, req)
         /\ \E r \in Answers(ListResponses, req.url) :
              /\ resp' = r
              /\ listResps' = Append(listResps, r)
              /\ IF r.kind = "transport"
                 THEN /\ Raise("ConnectionError")
                      /\ out' = Append(out, Traceback("ConnectionError", {req.url}))
                      /\ UNCHANGED <<attempt, quote, sleeps>>
                 ELSE IF RaisesForStatus(r)
                 THEN /\ Raise("HTTPError")
                      /\ out' = Append(out, Traceback("HTTPError",
                                                      HttpErrorMessage(r, req.url)))
                      /\ UNCHANGED <<attempt, quote, sleeps>>
                 ELSE IF ~r.json_ok
                 THEN /\ Raise("ValueError")
                      /\ out' = Append(out, Traceback("ValueError", {}))
                      /\ UNCHANGED <<attempt, quote, sleeps>>
                 ELSE IF r.body # <<>>
                 THEN /\ quote' = <<FirstQuote(r.body)>>
                      /\ IF "quoteId" \in DOMAIN FirstQuote(r.body)
                         THEN /\ pc' = "execute"
                              /\ err' = err
                              /\ out' = Append(out, Line("Received quote on attempt",
                                             {ToStr(attempt)} \cup QuoteText(FirstQuote(r.body))))
                         ELSE /\ Raise("KeyError")
                              /\ out' = out \o
                                    << Line("Received quote on attempt",
                                            {ToStr(attempt)} \cup QuoteText(FirstQuote(r.body))),
                                       Traceback("KeyError", {Tok("quoteId")}) >>
                      /\ UNCHANGED <<attempt, sleeps>>
                 ELSE /\ out' = Append(out, Line("No quotes yet, sleeping...",
                                                 {ToStr(attempt), ToStr(max_attempts)}))
                      /\ sleeps' = sleeps + SleepsAfterEmpty(attempt, max_attempts)
                      /\ attempt' = NextAttempt(attempt)
                      /\ UNCHANGED <<pc, err, quote>>
    /\ UNCHANGED <<api_key, secret_key, max_attempts, rfq_url, result>>

\* The for loop is exhausted: raise TimeoutError.
poll_timeout ==
    /\ pc = "poll"
    /\ ~LoopContinues(attempt, max_attempts)
    /\ Raise("TimeoutError")
    /\ out' = Append(out, Traceback("TimeoutError", {}))
    /\ UNCHANGED <<api_key, secret_key, max_attempts, attempt, rfq_url, quote,
                   resp, reqs, listResps, sleeps, result, now>>

\* ------------------------------------------------------------------------
\* execute_quote, and main()'s except requests.HTTPError: ... raise
\* ------------------------------------------------------------------------
ExecuteRequest(u, id, t) ==
    [method |-> "POST", op |-> "execute", url |-> execute_url(u),
     signed_path |-> execute_path(u), quote_id |-> id,
     headers |-> make_auth_headers(execute_path(u), api_key, secret_key, t)]

\* print(f"sending payload {payload} to {execute_path}")
SendingLine(req) == Line("sending payload", {Tok(req.quote_id), req.signed_path})

execute_quote ==
    /\ pc = "execute"
    /\ \E t \in ClockReadings : \E req \in {ExecuteRequest(rfq_url, quote[1]["quoteId"], t)} :
         /\ now' = t
         /\ reqs' = Append(reqs, req)
         /\ \E r \in Answers(ExecuteResponses, req.url) :
              /\ resp' = r
              /\ IF r.kind = "transport"
                 THEN /\ Raise("ConnectionError")
                      /\ out' = out \o << SendingLine(req),
                                          Traceback("ConnectionError", {req.url}) >>
                      /\ result' = result
                 ELSE IF RaisesForStatus(r)
                 THEN /\ Raise("HTTPError")
                      /\ out' = out \o << SendingLine(req) >>
                                    \o ExecuteErrorDump(r, req)
                                    \o << Line("HTTPError during execute:",
                                               HttpErrorMessage(r, req.url)),
                                          Traceback("HTTPError",
                                                    HttpErrorMessage(r, req.url)) >>
                      /\ result' = result
                 ELSE /\ result' = Tok(r.text)
                      /\ out' = out \o << SendingLine(req),
                                          Line("Execution response:", {Tok(r.text)}) >>
                      /\ pc' = "done"
                      /\ err' = err
    /\ UNCHANGED <<api_key, secret_key, max_attempts, attempt, rfq_url, quote,
                   listResps, sleeps>>

Next == main_start \/ create_rfq \/ poll_quotes \/ poll_attempt \/ poll_timeout \/ execute_quote

Spec == Init /\ [][Next]_vars

\* The interpreter runs the script to its end: main() is one thread of
\* sequential blocking calls, every request carries a timeout, and a sleep
\* returns, so a step that can be taken is taken.
FairSpec == Spec /\ WF_vars(Next)

\* ------------------------------------------------------------------------
\* The path and URL derivation of poll_quotes and execute_quote on its own:
\* applied to an arbitrary rfq_url and to the same rfq_url followed by "/".
\* ------------------------------------------------------------------------
UrlChars == {"x", ":", "/", "?", "#"}

\* Every string over UrlChars of at most MaxUrlLen characters.
AnyUrls == UNION { [1..n -> UrlChars] : n \in 0..MaxUrlLen }

InitDerive ==
    /\ pc = "derive"
    /\ api_key = <<"k">>
    /\ secret_key = <<"s">>
    /\ max_attempts = DEFAULT_MAX_ATTEMPTS
    /\ attempt = 1
    /\ rfq_url \in AnyUrls
    /\ quote = << [quoteId |-> "q1"] >>
    /\ resp = NoResponse
    /\ reqs = <<>>
    /\ listResps = <<>>
    /\ sleeps = 0
    /\ result = None
    /\ err = ""
    /\ now = StartMs
    /\ out = <<>>

\* The requests poll_quotes and execute_quote build for rfq_url, and those
\* they build for rfq_url + "/".
derive_requests ==
    /\ pc = "derive"
    /\ pc' = "derived"
    /\ reqs' = << ListRequest(rfq_url, now),
                  ListRequest(rfq_url \o <<"/">>, now),
                  ExecuteRequest(rfq_url, quote[1]["quoteId"], now),
                  ExecuteRequest(rfq_url \o <<"/">>, quote[1]["quoteId"], now) >>
    /\ UNCHANGED <<api_key, secret_key, max_attempts, attempt, rfq_url, quote, resp,
                   listResps, sleeps, result, err, now, out>>

NextDerive == derive_requests

SpecDerive == InitDerive /\ [][NextDerive]_vars

\* ------------------------------------------------------------------------
\* Observations on a run
\* ------------------------------------------------------------------------
\* Number of requests of one operation issued so far.
NumReqs(op) == Cardinality({ i \in 1..Len(reqs) : reqs[i].op = op })

\* A response that is a 2xx carrying a JSON array.
IsOkList(r) == r.kind = "http" /\ ~(400 <= r.status) /\ r.json_ok

IsEmptyList(r) == IsOkList(r) /\ Len(r.body) = 0

IsNonEmptyList(r) == IsOkList(r) /\ Len(r.body) > 0

\* A non-2xx response or a transport failure.
IsHttpFailure(r) == r.kind = "transport" \/ (r.kind = "http" /\ r.status \notin 200..299)

\* poll_quotes has returned a quote.
PollReturned == quote # <<>>

\* ------------------------------------------------------------------------
\* C1 - poll_quotes never issues more quotes GETs than max_attempts allows
\* (a budget below zero allows none).
\* ------------------------------------------------------------------------
C1_ListRequestsWithinBudget ==
    NumReqs("list") <= (IF max_attempts > 0 THEN max_attempts ELSE 0)

\* The whole budget of a run with several attempts has been used.
C1_Witness ==
    /\ max_attempts >= 2
    /\ NumReqs("list") = max_attempts
    /\ pc = "failed"

\* ------------------------------------------------------------------------
\* C2 - when poll_quotes returns, it returns element 0 of the first non-empty
\* list it received, and that response is the last quotes GET of the run:
\* no request and no sleep follow it.
\* ------------------------------------------------------------------------
C2_ReturnsHeadOfFirstNonEmpty ==
    PollReturned =>
        LET n == Len(listResps) IN
        /\ n >= 1
        /\ IsNonEmptyList(listResps[n])
        /\ \A j \in 1..(n - 1) : IsEmptyList(listResps[j])
        /\ quote[1] = listResps[n].body[1]
        /\ NumReqs("list") = n
        /\ sleeps = n - 1

\* poll_quotes returned from a list of two different quotes on a later
\* attempt, and the run went on to its end.
C2_Witness ==
    /\ PollReturned
    /\ Len(listResps) >= 2
    /\ Len(listResps[Len(listResps)].body) = 2
    /\ listResps[Len(listResps)].body[1] # listResps[Len(listResps)].body[2]
    /\ pc = "done"

\* ------------------------------------------------------------------------
\* C3 - with max_attempts >= 1 and nothing but empty 2xx lists, poll_quotes
\* keeps polling until it has issued exactly max_attempts GETs and then ends
\* with TimeoutError (the polling timeout), never with an HTTP error.
\* ------------------------------------------------------------------------
C3_AlwaysEmptyTimesOut ==
    ( /\ max_attempts >= 1
      /\ rfq_url # None
      /\ pc # "created"
      /\ \A j \in 1..Len(listResps) : IsEmptyList(listResps[j]) )
    => \/ /\ pc = "poll"
          /\ NumReqs("list") = attempt - 1
          /\ attempt <= max_attempts + 1
       \/ /\ pc = "failed"
          /\ err = "TimeoutError"
          /\ NumReqs("list") = max_attempts

\* A budget of three, three empty lists, and the timeout.
C3_Witness ==
    /\ max_attempts = 3
    /\ Len(listResps) = 3
    /\ \A j \in 1..3 : IsEmptyList(listResps[j])
    /\ pc = "failed"
    /\ err = "TimeoutError"

C5_ExecuteFollowsCreateAndPoll ==
    /\ NumReqs("create") <= 1
    /\ NumReqs("execute") <= 1
    /\ \A i \in 1..Len(reqs) :
         reqs[i].op = "execute" =>
            /\ i = Len(reqs)
            /\ i >= 3
            /\ reqs[1].op = "create"
            /\ rfq_url # None
            /\ PollReturned
            /\ reqs[i - 1].op = "list"
            /\ reqs[i - 1].url = RStripSlash(rfq_url) \o QUOTES_SUFFIX
            /\ IsNonEmptyList(listResps[Len(listResps)])
            /\ quote[1] = listResps[Len(listResps)].body[1]
            /\ reqs[i].quote_id = quote[1]["quoteId"]
            /\ reqs[i].url = RStripSlash(rfq_url) \o EXECUTE_SUFFIX

\* A complete run whose RFQ URL came with a trailing slash and whose winning
\* quote was found on a later attempt.
C5_Witness ==
    /\ pc = "done"
    /\ NumReqs("execute") = 1
    /\ NumReqs("list") >= 2
    /\ rfq_url = <<"h", "t", "t", "p", "s", ":", "/", "/", "x", "/", "r", "/">>
    /\ reqs[Len(reqs)].quote_id = "q2"

\* ------------------------------------------------------------------------
\* C6 - a failure in any stage aborts the workflow: every error ends the run
\* in the failed state with a non-zero exit status; after a failed create
\* there is no list or execute request, after a failed poll no execute
\* request; a failing response is the last request of the run, and nothing
\* happens after the failure.
\* ------------------------------------------------------------------------
C6_StateAfterFailure ==
    /\ (err # "") <=> (pc = "failed")
    /\ pc = "failed" => ExitCode # 0
    /\ pc = "done" => (err = "" /\ NumReqs("execute") = 1)
    /\ (pc = "failed" /\ rfq_url = None) => (NumReqs("list") = 0 /\ NumReqs("execute") = 0)
    /\ (pc = "failed" /\ ~PollReturned) => NumReqs("execute") = 0
    /\ NumReqs("create") <= 1
    /\ IsHttpFailure(resp) => pc = "failed"

C6_FailureAborts ==
    /\ []C6_StateAfterFailure
    /\ [][pc = "failed" => (pc' = "failed" /\ reqs' = reqs)]_vars

\* A poll that failed after a successful create.
C6_Witness ==
    /\ pc = "failed"
    /\ rfq_url # None
    /\ err \in {"HTTPError", "TimeoutError"}
    /\ NumReqs("list") >= 1

\* ------------------------------------------------------------------------
\* Observations on the create response
\* ------------------------------------------------------------------------
\* The state right after create_rfq handled an HTTP response: the create
\* request is the only one so far and poll_quotes has not ended.
AfterCreateResponse == Len(reqs) = 1 /\ resp.kind = "http" /\ err # "TimeoutError"

Is2xx(r) == r.status \in 200..299

\* The four sources of the RFQ URL, in the order of the claim.
Sources(r) ==
    << Get(JsonOrEmpty(r), "rfqUrl"), Get(JsonOrEmpty(r), "rfq_url"),
       Get(JsonOrEmpty(r), "url"), Get(r.headers, "Location") >>

\* Whether each source is present at all, whatever it holds.
Present(r) ==
    << "rfqUrl" \in DOMAIN JsonOrEmpty(r), "rfq_url" \in DOMAIN JsonOrEmpty(r),
       "url" \in DOMAIN JsonOrEmpty(r), "Location" \in DOMAIN r.headers >>

\* The least index of a sequence of booleans that holds TRUE, 0 when none.
FirstTrue(flags) ==
    IF \E i \in 1..Len(flags) : flags[i]
    THEN CHOOSE i \in 1..Len(flags) : flags[i] /\ \A j \in 1..(i - 1) : ~flags[j]
    ELSE 0

NonEmpty(r) == [i \in 1..4 |-> Truthy(Sources(r)[i])]

CreateReturned(u) == pc = "created" /\ rfq_url = u /\ err = ""

CreateFailed(e) == pc = "failed" /\ err = e /\ rfq_url = None

\* ------------------------------------------------------------------------
\* C7 as stated - on a 2xx create response the RFQ URL is taken from the
\* first source that is present among rfqUrl, rfq_url, url, Location, and
\* create_rfq fails with RuntimeError (MissingRfqUrl) when none is present.
\* ------------------------------------------------------------------------
C7_FirstPresentSource ==
    (AfterCreateResponse /\ Is2xx(resp)) =>
        IF FirstTrue(Present(resp)) = 0
        THEN CreateFailed("RuntimeError")
        ELSE CreateReturned(NormalizeScheme(Sources(resp)[FirstTrue(Present(resp))]))

\* ------------------------------------------------------------------------
\* C7 as amended - on a 2xx create response the RFQ URL is taken from the
\* first source, in the order rfqUrl, rfq_url, url, Location, that holds a
\* non-empty value (a field that is present but null or "" is passed over);
\* Location is used only when no body field holds a non-empty value, and
\* create_rfq fails with RuntimeError (MissingRfqUrl) when no source does.
\* ------------------------------------------------------------------------
C7_FirstNonEmptySource ==
    (AfterCreateResponse /\ Is2xx(resp)) =>
        IF FirstTrue(NonEmpty(resp)) = 0
        THEN CreateFailed("RuntimeError")
        ELSE CreateReturned(NormalizeScheme(Sources(resp)[FirstTrue(NonEmpty(resp))]))

\* rfqUrl is present but empty, rfq_url is missing, url and Location hold
\* different URLs: the URL comes from url.
C7_Witness ==
    /\ AfterCreateResponse
    /\ Is2xx(resp)
    /\ resp.json_ok
    /\ DOMAIN resp.body = {"rfqUrl", "url"}
    /\ resp.body["rfqUrl"] = EmptyStr
    /\ Truthy(resp.body["url"])
    /\ Truthy(Get(resp.headers, "Location"))
    /\ NormalizeScheme(resp.headers["Location"]) # NormalizeScheme(resp.body["url"])
    /\ CreateReturned(NormalizeScheme(resp.body["url"]))

IsAbsolute(u) == urlparse(u).scheme # EmptyStr /\ urlparse(u).netloc # EmptyStr

C10_RfqUrlIsAbsolute ==
    /\ rfq_url # None => IsAbsolute(rfq_url)
    /\ \A i \in 1..Len(reqs) : IsAbsolute(reqs[i].url)

\* ------------------------------------------------------------------------
\* C11 - the derivation ignores a trailing slash: for every rfq_url u, the
\* /quotes path and URL and the /execute path and URL derived from u and
\* from u + "/" are identical, and in a derived path the appended segment is
\* never preceded by a second slash.
\* ------------------------------------------------------------------------
\* path is some p + suffix where p does not end with "/".
JoinedWithOneSlash(path, suffix) ==
    /\ Len(path) >= Len(suffix)
    /\ SubSeq(path, Len(path) - Len(suffix) + 1, Len(path)) = suffix
    /\ Len(path) > Len(suffix) => path[Len(path) - Len(suffix)] # "/"

SignedPathOf(req) ==
    SubSeq(req.headers.x_signature.message,
           Len(req.headers.x_api_key) + Len(req.headers.x_nonce) + 3,
           Len(req.headers.x_signature.message))

EndsWith(s, suffix) ==
    Len(s) >= Len(suffix) /\ SubSeq(s, Len(s) - Len(suffix) + 1, Len(s)) = suffix

\* int(s) for a string of decimal digits.
RECURSIVE ToInt(_)
ToInt(s) ==
    IF Len(s) = 0 THEN 0
    ELSE 10 * ToInt(SubSeq(s, 1, Len(s) - 1))
         + (CHOOSE d \in 0..9 : Digit(d) = s[Len(s)])

\* ------------------------------------------------------------------------
\* C12 - for every request that is sent, the path inside the signed message
\* is the path component of the URL the request goes to: RFQ_PATH for
\* create, the derived ".../quotes" path for list, the derived ".../execute"
\* path for execute, and never the bare path of the RFQ for the last two.
\* ------------------------------------------------------------------------
C12_SignedPathIsRequestPath ==
    \A i \in 1..Len(reqs) :
        Sendable(reqs[i].url) =>
            /\ SignedPathOf(reqs[i]) = urlparse(reqs[i].url).path
            /\ reqs[i].headers.x_signature.message =
                   api_key \o <<":">> \o reqs[i].headers.x_nonce \o <<":">>
                           \o urlparse(reqs[i].url).path
            /\ reqs[i].op = "create" => SignedPathOf(reqs[i]) = RFQ_PATH
            /\ reqs[i].op = "list" =>
                   /\ EndsWith(SignedPathOf(reqs[i]), QUOTES_SUFFIX)
                   /\ SignedPathOf(reqs[i]) # urlparse(rfq_url).path
            /\ reqs[i].op = "execute" =>
                   /\ EndsWith(SignedPathOf(reqs[i]), EXECUTE_SUFFIX)
                   /\ SignedPathOf(reqs[i]) # urlparse(rfq_url).path

\* A complete run on an RFQ URL with a trailing slash: create, two list
\* requests and execute have all been sent.
C12_Witness ==
    /\ pc = "done"
    /\ rfq_url = <<"h", "t", "t", "p", "s", ":", "/", "/", "x", "/", "r", "/">>
    /\ NumReqs("list") = 2
    /\ \A i \in 1..Len(reqs) : Sendable(reqs[i].url)

\* ------------------------------------------------------------------------
\* C13 - within one run no two requests carry the same x-nonce, and the
\* nonces do not decrease in request order.
\* ------------------------------------------------------------------------
C13_NoncesUniqueAndOrdered ==
    \A i, j \in 1..Len(reqs) :
        i < j =>
            /\ reqs[i].headers.x_nonce # reqs[j].headers.x_nonce
            /\ ToInt(reqs[i].headers.x_nonce) <= ToInt(reqs[j].headers.x_nonce)


\* ------------------------------------------------------------------------
\* Observations on the execute stage and on the printed output
\* ------------------------------------------------------------------------
\* The execute request was answered with a 4xx/5xx response.
ExecuteFailedHttp ==
    /\ reqs # <<>>
    /\ reqs[Len(reqs)].op = "execute"
    /\ resp.kind = "http"
    /\ resp.status \notin 200..299

\* Some printed line has this text and shows exactly these strings.
Printed(l) == \E i \in 1..Len(out) : out[i] = l

\* Positions in the output of the lines with this text.
LinesWith(label) == { i \in 1..Len(out) : out[i].line = label }

\* The texts of the lines under "if not resp.ok:", in print order.
DumpLabels ==
    << "---- EXECUTE ERROR ----", "Status code:", "URL:", "Method actually used:",
       "Path used for signature:", "Request headers:", "Request body:",
       "Response headers:", "Response body:", "------------------------" >>

\* The ten lines starting at position i are the diagnostic dump.
DumpAt(i) ==
    /\ i + Len(DumpLabels) - 1 <= Len(out)
    /\ \A k \in 1..Len(DumpLabels) : out[i + k - 1].line = DumpLabels[k]

C15_NoCredentialPrinted ==
    \A i \in 1..Len(out) :
        /\ api_key \notin out[i].shows
        /\ secret_key \notin out[i].shows

\* ------------------------------------------------------------------------
\* C16 - a run started with a missing or empty credential issues no HTTP
\* request and ends with SystemExit, which no other failure of the workflow
\* produces (those end with HTTPError, RuntimeError or TimeoutError).
\* ------------------------------------------------------------------------
C16_MissingCredentialIsFatalAtStartup ==
    /\ (api_key \in {None, EmptyStr} \/ secret_key \in {None, EmptyStr}) =>
           /\ reqs = <<>>
           /\ sleeps = 0
           /\ pc \in {"start", "failed"}
           /\ pc = "failed" => (err = "SystemExit" /\ ExitCode = 1)
    /\ err = "SystemExit" =>
           /\ api_key \in {None, EmptyStr} \/ secret_key \in {None, EmptyStr}
           /\ reqs = <<>>
    /\ (reqs # <<>> /\ pc = "failed") =>
           err \in {"HTTPError", "RuntimeError", "TimeoutError",
                    "ConnectionError", "ValueError", "KeyError"}

\* The run was refused with the API key set and the secret key empty.
C16_Witness ==
    /\ pc = "failed"
    /\ err = "SystemExit"
    /\ api_key = <<"k">>
    /\ secret_key = EmptyStr
    /\ reqs = <<>>

EmptyResults == Cardinality({ i \in 1..Len(listResps) : IsEmptyList(listResps[i]) })

C18_SleepsMatchEmptyResults ==
    /\ sleeps = EmptyResults
    /\ NumReqs("list") = 0 => sleeps = 0
    /\ NumReqs("list") > 0 =>
           sleeps = NumReqs("list")
                      - (IF IsEmptyList(listResps[Len(listResps)]) THEN 0 ELSE 1)

C18_OneSleepAfterEachEmptyResult ==
    /\ []C18_SleepsMatchEmptyResults
    /\ [][Len(listResps') = Len(listResps) + 1 =>
             /\ sleeps = Len(listResps)
             /\ sleeps' = sleeps + (IF IsEmptyList(resp') THEN 1 ELSE 0)]_vars
    /\ [][Len(listResps') = Len(listResps) => sleeps' = sleeps]_vars

\* The whole budget was used on empty results: a sleep followed the last one.
C18_Witness ==
    /\ err = "TimeoutError"
    /\ max_attempts = MaxBudget
    /\ NumReqs("list") = MaxBudget
    /\ sleeps = MaxBudget

\* ------------------------------------------------------------------------
\* C19 - every run reaches a terminal state (done after execute, or failed),
\* and has issued at most one create request, at most max_attempts list
\* requests and at most one execute request.
\* ------------------------------------------------------------------------
Terminated == pc \in {"done", "failed"}

RequestsWithinLimits ==
    /\ NumReqs("create") <= 1
    /\ NumReqs("list") <= (IF max_attempts < 0 THEN 0 ELSE max_attempts)
    /\ NumReqs("execute") <= 1
    /\ pc = "done" => NumReqs("execute") = 1

C19_RunTerminates ==
    /\ <>Terminated
    /\ []RequestsWithinLimits
    /\ [][Terminated => UNCHANGED vars]_vars

\* A run that ended after every kind of request, the polling having used
\* more than one attempt.
C19_Witness ==
    /\ Terminated
    /\ NumReqs("create") = 1
    /\ NumReqs("list") > 1
    /\ NumReqs("execute") = 1

\* ------------------------------------------------------------------------
\* C20 - poll_quotes entered with max_attempts <= 0 sends no list request,
\* does not sleep, and its one step is to raise TimeoutError.
\* ------------------------------------------------------------------------
PollEnteredWithoutBudget == rfq_url # None /\ max_attempts <= 0

C20_StateWithoutBudget ==
    PollEnteredWithoutBudget =>
        /\ NumReqs("list") = 0
        /\ listResps = <<>>
        /\ sleeps = 0
        /\ NumReqs("execute") = 0
        /\ pc \in {"poll", "failed"}
        /\ pc = "failed" => err = "TimeoutError"

C20_NoBudgetTimesOutAtOnce ==
    /\ []C20_StateWithoutBudget
    /\ [][(pc = "poll" /\ max_attempts <= 0) =>
             (pc' = "failed" /\ err' = "TimeoutError" /\ reqs' = reqs /\ sleeps' = sleeps)]_vars

\* poll_quotes ran with a budget of 0 and raised TimeoutError.
C20_Witness ==
    /\ pc = "failed"
    /\ err = "TimeoutError"
    /\ max_attempts = 0
    /\ Len(reqs) = 1

====
